---- MODULE Spec2Model ----
(***************************************************************************)
(* Model of fusion_data_api_id_utils.py: derivation of Fusion Data API ids *)
(* for the components of a design from the host's PIM payload, and the     *)
(* two-level cache (module-global dict `results`, one JSON file per design *)
(* file version id) that stores the derived records.                       *)
(*                                                                         *)
(* Strings that go through a conversion (base64 encoding, file-name        *)
(* substitution) are sequences of ASCII codes; base64 text is a sequence   *)
(* of one-character strings.  Other strings are opaque.                    *)
(***************************************************************************)
EXTENDS Integers, Sequences, FiniteSets, TLC

VARIABLES
    results,   \* module global `results`: version id -> DesignInfo
    disk,      \* cache folder: file name -> DesignInfo stored as JSON
    loc,       \* host: data file -> its current folder / project / hub
    pim,       \* host: data file -> what assemblyPIMData() returns for it
    last,      \* the most recent step and what it touched and returned
    ein,       \* encoder check: the composite string given
    eout,      \* encoder check: the identifier produced and its decoding
    lin,       \* lookup check: the PIM payload and the design given
    lout       \* lookup check: what the lookup generated

vars == <<results, disk, loc, pim, last, ein, eout, lin, lout>>

----------------------------------------------------------------------------
(* Bounds *)

\* longest composite string given to the encoder check
MaxLen == 3
\* longest Components / AllComponents list a step may build
MaxList == 2

----------------------------------------------------------------------------
(* Configuration *)

CACHE_RESULTS == TRUE

----------------------------------------------------------------------------
(* Sequences *)

Range(s) == { s[i] : i \in 1..Len(s) }

\* str.replace(old, new) on single characters
RECURSIVE Replace(_, _, _)
Replace(s, old, new) ==
    IF s = <<>> THEN <<>>
    ELSE <<IF Head(s) = old THEN new ELSE Head(s)>> \o Replace(Tail(s), old, new)

\* str.rstrip(ch)
RECURSIVE RStrip(_, _)
RStrip(s, ch) ==
    IF s # <<>> /\ s[Len(s)] = ch THEN RStrip(SubSeq(s, 1, Len(s) - 1), ch) ELSE s

----------------------------------------------------------------------------
(* base64.urlsafe_b64encode and the identifier encoding *)

B64Alphabet ==
    << "A","B","C","D","E","F","G","H","I","J","K","L","M",
       "N","O","P","Q","R","S","T","U","V","W","X","Y","Z",
       "a","b","c","d","e","f","g","h","i","j","k","l","m",
       "n","o","p","q","r","s","t","u","v","w","x","y","z",
       "0","1","2","3","4","5","6","7","8","9","-","_" >>

Pad == "="

\* the character of a 6-bit group
B64Char(n) == B64Alphabet[n + 1]

\* bytes (0..255) to padded URL-safe base64 text, three bytes at a time
RECURSIVE urlsafe_b64encode(_)
urlsafe_b64encode(b) ==
    IF Len(b) = 0 THEN <<>>
    ELSE IF Len(b) = 1 THEN
        << B64Char(b[1] \div 4), B64Char((b[1] % 4) * 16), Pad, Pad >>
    ELSE IF Len(b) = 2 THEN
        << B64Char(b[1] \div 4), B64Char((b[1] % 4) * 16 + (b[2] \div 16)),
           B64Char((b[2] % 16) * 4), Pad >>
    ELSE
        << B64Char(b[1] \div 4), B64Char((b[1] % 4) * 16 + (b[2] \div 16)),
           B64Char((b[2] % 16) * 4 + (b[3] \div 64)), B64Char(b[3] % 64) >>
        \o urlsafe_b64encode(SubSeq(b, 4, Len(b)))

\* a mis-written strip that cuts two characters whether or not they are padding
StripTwoAlways(string) ==
    LET t == urlsafe_b64encode(string)
    IN  IF Len(t) >= 2 THEN SubSeq(t, 1, Len(t) - 2) ELSE t

_make_url_safe_base64_encoded_string(string) ==
    RStrip(urlsafe_b64encode(string), Pad)

----------------------------------------------------------------------------
(* The host: data files, designs, components *)

Files == {"A", "B", "S"}

\* data_file.id, the lineage id
FileId == [A |-> "LA", B |-> "LB", S |-> "LS"]

\* data_file.versionId: "v:A", "v:B", "v:S"
VersionId == [A |-> <<118, 58, 65>>, B |-> <<118, 58, 66>>, S |-> <<118, 58, 83>>]

\* data_file.parentFolder.id, parentProject.id, parentProject.parentHub.id
Locations ==
    { [folder |-> "f1", project |-> "p1", hub |-> "h1"],
      [folder |-> "f2", project |-> "p2", hub |-> "h2"] }

\* components; an id is unique within its file only
compA1 == [name |-> "a1", id |-> "c1", file |-> "A"]
compB1 == [name |-> "b1", id |-> "c1", file |-> "B"]
compS1 == [name |-> "s1", id |-> "c1", file |-> "S"]

\* design.allComponents: the root component first, then the referenced files'
allComponents ==
    [A |-> <<compA1, compS1>>,
     B |-> <<compB1, compS1>>,
     S |-> <<compS1>>]

AllComps == {compA1, compB1, compS1}

\* app.data.activeSpaceCollectionId: "co"
collection_id == <<99, 111>>

----------------------------------------------------------------------------
(* The PIM payload: the JSON object assemblyPIMData() returns, as the list  *)
(* of its values in document order (json.loads keeps that order)            *)

\* "x", "y", "a", "b", "d", "e"
Space(f3d, lineage, id, snapshotId) ==
    [dict |-> TRUE, modelAsset |-> TRUE, hasId |-> TRUE,
     f3d |-> f3d, lineage |-> lineage, id |-> id, snapshotId |-> snapshotId]

spA1    == Space("c1", "LA", <<97>>, <<120>>)
spS1    == Space("c1", "LS", <<98>>, <<121>>)
\* a component the design no longer holds, without a snapshotId key
spS2    == Space("c2", "LS", <<99>>, <<>>)
spB1    == Space("c1", "LB", <<100>>, <<120>>)
\* a second space for the same component of the same file
spS1bis == Space("c1", "LS", <<101>>, <<121>>)
\* a modelAsset without an 'id' key
spS1noId == [spS1 EXCEPT !.hasId = FALSE]
\* a space without a modelAsset
spNoAsset == [spA1 EXCEPT !.modelAsset = FALSE]
\* a value of the payload that is not an object
spScalar == [spA1 EXCEPT !.dict = FALSE, !.modelAsset = FALSE]

Payload(spaces) == [valid |-> TRUE, spaces |-> spaces]

\* a string json.loads rejects
BadPayload == [valid |-> FALSE, spaces |-> <<>>]

\* every component of every file resolvable
FullPayload == Payload(<<spScalar, spNoAsset, spA1, spB1, spS1, spS2>>)
\* nothing of file A or B, and of file S another component only
StalePayload == Payload(<<spS2>>)
\* the space of file S's component lacks its asset id
NoIdPayload == Payload(<<spA1, spB1, spS1noId>>)

\* what each host file's assemblyPIMData() may hold
HostPayloads ==
    [A |-> {FullPayload, StalePayload, NoIdPayload, BadPayload},
     B |-> {FullPayload, NoIdPayload},
     S |-> {FullPayload, StalePayload, BadPayload}]

\* the files the host moves
Movable == {"A", "S"}

NoPim == << >>

\* dict.get(key) of a dict of dicts, None being the empty dict
DictGet(d, k) == IF k \in DOMAIN d THEN d[k] ELSE NoPim

\* lines 165-174: one space of the payload entered in the map
StructureStep(pim_data, space) ==
    IF space.dict /\ space.modelAsset
    THEN (space.lineage :> ((space.f3d :> space) @@ DictGet(pim_data, space.lineage)))
         @@ pim_data
    ELSE pim_data

RECURSIVE StructureFrom(_, _, _)
StructureFrom(pim_data, spaces, i) ==
    IF i > Len(spaces) THEN pim_data
    ELSE StructureFrom(StructureStep(pim_data, spaces[i]), spaces, i + 1)

\* the map lineage id -> (component id -> space) of a payload json.loads accepts
_make_structured_pim_data(payload) == StructureFrom(NoPim, payload.spaces, 1)

----------------------------------------------------------------------------
(* Component records *)

\* "Failed to get ID"
Sentinel ==
    << "F","a","i","l","e","d"," ","t","o"," ","g","e","t"," ","I","D" >>

\* "comp~"
CompPrefix == <<99, 111, 109, 112, 126>>
Tilde == <<126>>

\* model_asset['id'] raises KeyError when the key is missing
AssetIdRaises(space) == space.modelAsset /\ ~ space.hasId

_get_asset_id(space) == IF space.modelAsset THEN space.id ELSE <<>>

_get_snapshot_id(space) == IF space.snapshotId # <<>> THEN space.snapshotId ELSE <<>>

\* f'comp~{collection_id}~{pim_model_asset_id}~~'
ComponentIdString(asset) ==
    CompPrefix \o collection_id \o Tilde \o asset \o Tilde \o Tilde

\* f'comp~{collection_id}~{pim_model_asset_id}~{pim_snapshot_id}'
ComponentVersionIdString(asset, snapshot) ==
    CompPrefix \o collection_id \o Tilde \o asset \o Tilde \o snapshot

_make_fusion_data_component_id(component, pim_data) ==
    IF component.id \in DOMAIN pim_data
    THEN _make_url_safe_base64_encoded_string(
             ComponentIdString(_get_asset_id(pim_data[component.id])))
    ELSE Sentinel

_make_fusion_data_component_version_id(component, pim_data) ==
    IF component.id \in DOMAIN pim_data
    THEN _make_url_safe_base64_encoded_string(
             ComponentVersionIdString(_get_asset_id(pim_data[component.id]),
                                      _get_snapshot_id(pim_data[component.id])))
    ELSE Sentinel

\* whether _make_component_info raises (the KeyError of _get_asset_id)
ComponentInfoRaises(component, pim_data) ==
    component.id \in DOMAIN pim_data /\ AssetIdRaises(pim_data[component.id])

_make_component_info(component, pim_data) ==
    [Name |-> component.name,
     f3dComponentId |-> component.id,
     ComponentId |-> _make_fusion_data_component_id(component, pim_data),
     ComponentVersionId |-> _make_fusion_data_component_version_id(component, pim_data)]

----------------------------------------------------------------------------
(* Design records and the in-memory dict *)

NoResults == << >>

_make_design_info(data_file) ==
    [Name |-> data_file,
     DesignFileId |-> FileId[data_file],
     DesignFileVersionId |-> VersionId[data_file],
     FolderId |-> loc[data_file].folder,
     ProjectId |-> loc[data_file].project,
     HubId |-> loc[data_file].hub,
     Components |-> <<>>,
     AllComponents |-> <<>>]

_get_fresh_file_data_properties(data_file) ==
    [FolderId |-> loc[data_file].folder,
     ProjectId |-> loc[data_file].project,
     HubId |-> loc[data_file].hub]

\* a refresh that forgets the hub
RefreshWithoutHub(design_version_info, fresh_file_data) ==
    [design_version_info EXCEPT !.FolderId = fresh_file_data.FolderId,
                                !.ProjectId = fresh_file_data.ProjectId]

\* dict.update(fresh_file_data)
DictUpdate(design_version_info, fresh_file_data) ==
    [design_version_info EXCEPT !.FolderId = fresh_file_data.FolderId,
                                !.ProjectId = fresh_file_data.ProjectId,
                                !.HubId = fresh_file_data.HubId]

\* results.get(version_id) is a record
InResults(res, version_id) == version_id \in DOMAIN res

_ensure_file_version_in_results(res, data_file) ==
    IF InResults(res, VersionId[data_file]) THEN res
    ELSE (VersionId[data_file] :> _make_design_info(data_file)) @@ res

\* a guard that lets every component through
AlwaysFound(pim_data_for_component_parent_file) == TRUE

\* line 148: a dict is true when it is not empty, None is false
PimFound(pim_data_for_component_parent_file) ==
    DOMAIN pim_data_for_component_parent_file # {}

\* a lookup that forgets the file: every lineage's entries merged
PimOfAnyFile(pim_data, component_lineage_id) ==
    LET ids == UNION { DOMAIN pim_data[l] : l \in DOMAIN pim_data }
    IN  [ id \in ids |->
            pim_data[CHOOSE l \in DOMAIN pim_data : id \in DOMAIN pim_data[l]][id] ]

\* line 146: pim_data.get(component_lineage_id)
PimOfFile(pim_data, component_lineage_id) == DictGet(pim_data, component_lineage_id)

\* lines 151-152: the record appended to the file's Components and to the
\* design's AllComponents
Commit(res, design_version_id, component_version_id, component_info) ==
    LET r1 == [res EXCEPT ![component_version_id].Components =
                              Append(@, component_info)]
    IN  [r1 EXCEPT ![design_version_id].AllComponents = Append(@, component_info)]

\* lines 141-152: one turn of the loop; raised when _make_component_info raises
ComponentStep(res, design_version_id, component, pim_data) ==
    LET r1 == _ensure_file_version_in_results(res, component.file)
        p  == PimOfFile(pim_data, FileId[component.file])
    IN  IF ~ PimFound(p) THEN [res |-> r1, raised |-> FALSE]
        ELSE IF ComponentInfoRaises(component, p) THEN [res |-> r1, raised |-> TRUE]
        ELSE [res |-> Commit(r1, design_version_id, VersionId[component.file],
                             _make_component_info(component, p)),
              raised |-> FALSE]

RECURSIVE GenerateFrom(_, _, _, _, _)
GenerateFrom(res, design_version_id, components, pim_data, i) ==
    IF i > Len(components) THEN [res |-> res, raised |-> FALSE]
    ELSE LET s == ComponentStep(res, design_version_id, components[i], pim_data)
         IN  IF s.raised THEN s
             ELSE GenerateFrom(s.res, design_version_id, components, pim_data, i + 1)

_generate_component_info_for_design(res, design_version_id, design, pim_data) ==
    GenerateFrom(res, design_version_id, allComponents[design], pim_data, 1)

\* a lookup that never finds the component
NeverFound(res, version_id, component) == <<>>

\* the first record of the file's Components with the component's id, as a
\* list of at most one element (None is the empty list)
_get_component_info_from_results_global(res, version_id, component) ==
    IF InResults(res, version_id)
    THEN LET component_match ==
                 SelectSeq(res[version_id].Components,
                           LAMBDA c : c.f3dComponentId = component.id)
         IN  IF Len(component_match) > 0 THEN <<component_match[1]>> ELSE <<>>
    ELSE <<>>

----------------------------------------------------------------------------
(* The disk cache *)

\* ':' replaced by '~', then '.json' appended under the cache folder
_make_design_version_file_name(version_id) ==
    Replace(version_id, 58, 126) \o <<46, 106, 115, 111, 110>>

\* a file per record: json.dumps writes the record, json.load reads it back
_write_one_json_object(dsk, design_info, version_id) ==
    (_make_design_version_file_name(version_id) :> design_info) @@ dsk

RECURSIVE WriteAll(_, _, _)
WriteAll(dsk, res, todo) ==
    IF todo = {} THEN dsk
    ELSE LET v == CHOOSE x \in todo : TRUE
         IN  WriteAll(_write_one_json_object(dsk, res[v], v), res, todo \ {v})

_write_results(dsk, res) == WriteAll(dsk, res, DOMAIN res)

FileExists(dsk, version_id) == _make_design_version_file_name(version_id) \in DOMAIN dsk

_read_versions_file(dsk, version_id) == dsk[_make_design_version_file_name(version_id)]

\* memory and disk after the refresh of one record
_refresh_design_info_result(res, dsk, version_id, design_version_info, data_file) ==
    LET fresh == DictUpdate(design_version_info,
                            _get_fresh_file_data_properties(data_file))
    IN  [results |-> (version_id :> fresh) @@ res,
         disk |-> _write_one_json_object(dsk, fresh, version_id)]

----------------------------------------------------------------------------
(* _generate_design_info: what it leaves in memory and on disk, the         *)
(* exception it ends with ("" for none) and what it touched                 *)

\* lines 129-135, the computation from the host
ComputeFromHost(res, dsk, design) ==
    LET version_id == VersionId[design]
        r1 == _ensure_file_version_in_results(res, design)
    IN  IF ~ pim[design].valid
        THEN [results |-> r1, disk |-> dsk, raised |-> "JSONDecodeError"]
        ELSE LET g == _generate_component_info_for_design(
                          r1, version_id, design,
                          _make_structured_pim_data(pim[design]))
             IN  IF g.raised
                 THEN [results |-> g.res, disk |-> dsk, raised |-> "KeyError"]
                 ELSE [results |-> g.res,
                       disk |-> IF CACHE_RESULTS THEN _write_results(dsk, g.res)
                                ELSE dsk,
                       raised |-> ""]

\* lines 123-125: the disk cache holds the version
DiskHit(dsk, version_id) == CACHE_RESULTS /\ FileExists(dsk, version_id)

_generate_design_info(res, dsk, design) ==
    LET version_id == VersionId[design]
    IN  IF DiskHit(dsk, version_id)
        THEN LET r == _refresh_design_info_result(
                          res, dsk, version_id,
                          _read_versions_file(dsk, version_id), design)
             IN  [results |-> r.results, disk |-> r.disk, raised |-> "",
                  diskRead |-> TRUE, diskHit |-> TRUE, pimQueried |-> FALSE]
        ELSE LET c == ComputeFromHost(res, dsk, design)
             IN  [results |-> c.results, disk |-> c.disk, raised |-> c.raised,
                  diskRead |-> CACHE_RESULTS, diskHit |-> FALSE,
                  pimQueried |-> TRUE]

----------------------------------------------------------------------------
(* Steps *)

Step(op, target, outcome, memHit, diskRead, diskHit, pimQueried, ret) ==
    [op |-> op, target |-> target, outcome |-> outcome, memHit |-> memHit,
     diskRead |-> diskRead, diskHit |-> diskHit, pimQueried |-> pimQueried,
     ret |-> ret]

NoStep(op, target) == Step(op, target, "", FALSE, FALSE, FALSE, FALSE, <<>>)

\* no list of the dict is longer than the model follows
WithinBound(res) ==
    \A v \in DOMAIN res :
        Len(res[v].Components) <= MaxList /\ Len(res[v].AllComponents) <= MaxList

\* a memory check that never finds the version
MemNeverHit(res, version_id) == FALSE

\* lines 100-101: results.get(design_version_id) is not None
MemHit(res, version_id) == InResults(res, version_id)

\* get_fusion_data_ids_for_design(design)
GetDesign(design) ==
    LET version_id == VersionId[design]
    IN  IF MemHit(results, version_id)
        THEN LET r == _refresh_design_info_result(
                          results, disk, version_id, results[version_id], design)
             IN  /\ results' = r.results
                 /\ disk' = r.disk
                 /\ last' = Step("design", design, "ok", TRUE, FALSE, FALSE, FALSE,
                                 <<r.results[version_id]>>)
        ELSE LET g == _generate_design_info(results, disk, design)
             IN  /\ WithinBound(g.results)
                 /\ results' = g.results
                 /\ disk' = g.disk
                 /\ last' = IF g.raised # ""
                            THEN Step("design", design, g.raised, FALSE,
                                      g.diskRead, g.diskHit, g.pimQueried, <<>>)
                            ELSE IF InResults(g.results, version_id)
                            THEN Step("design", design, "ok", FALSE,
                                      g.diskRead, g.diskHit, g.pimQueried,
                                      <<g.results[version_id]>>)
                            ELSE Step("design", design, "RuntimeError", FALSE,
                                      g.diskRead, g.diskHit, g.pimQueried, <<>>)

\* get_fusion_data_ids_for_component(component)
GetComponent(component) ==
    LET design == component.file
        version_id == VersionId[design]
        first == _get_component_info_from_results_global(results, version_id, component)
    IN  IF first # <<>>
        THEN /\ last' = Step("component", component.name, "ok", TRUE,
                             FALSE, FALSE, FALSE, first)
             /\ UNCHANGED <<results, disk>>
        ELSE LET g == _generate_design_info(results, disk, design)
                 second == _get_component_info_from_results_global(
                               g.results, version_id, component)
             IN  /\ WithinBound(g.results)
                 /\ results' = g.results
                 /\ disk' = g.disk
                 /\ last' = IF g.raised # ""
                            THEN Step("component", component.name, g.raised, FALSE,
                                      g.diskRead, g.diskHit, g.pimQueried, <<>>)
                            ELSE IF second # <<>>
                            THEN Step("component", component.name, "ok", FALSE,
                                      g.diskRead, g.diskHit, g.pimQueried, second)
                            ELSE Step("component", component.name, "RuntimeError",
                                      FALSE, g.diskRead, g.diskHit, g.pimQueried,
                                      <<>>)

\* the host moves a data file to another folder, project and hub
MoveFile(data_file) ==
    /\ \E l \in Locations \ {loc[data_file]} : loc' = [loc EXCEPT ![data_file] = l]
    /\ last' = NoStep("move", data_file)
    /\ UNCHANGED <<results, disk>>

\* the add-in is loaded again: line 27 empties the dict, the files stay
Reload ==
    /\ results' = NoResults
    /\ last' = NoStep("reload", "")
    /\ UNCHANGED <<disk, loc>>

----------------------------------------------------------------------------
(* The add-in in the host *)

PureIdle ==
    /\ ein = <<>>
    /\ eout = [done |-> FALSE, enc |-> <<>>, dec |-> <<>>]
    /\ lin = [payload |-> BadPayload, design |-> "A"]
    /\ lout = [done |-> FALSE, raised |-> FALSE, res |-> NoResults]

HomeLocation == [folder |-> "f1", project |-> "p1", hub |-> "h1"]

HostIdle ==
    /\ results = NoResults
    /\ disk = NoResults
    /\ loc = [f \in Files |-> HomeLocation]
    /\ last = NoStep("load", "")

Init ==
    /\ HostIdle
    /\ pim \in { p \in [Files -> UNION { HostPayloads[f] : f \in Files }] :
                   \A f \in Files : p[f] \in HostPayloads[f] }
    /\ PureIdle

Next ==
    \/ \E d \in Files : GetDesign(d) /\ UNCHANGED <<loc, pim, ein, eout, lin, lout>>
    \/ \E c \in AllComps : GetComponent(c) /\ UNCHANGED <<loc, pim, ein, eout, lin, lout>>
    \/ \E f \in Movable : MoveFile(f) /\ UNCHANGED <<pim, ein, eout, lin, lout>>
    \/ Reload /\ UNCHANGED <<pim, ein, eout, lin, lout>>

Spec == Init /\ [][Next]_vars

----------------------------------------------------------------------------
(* The encoder on its own: every ASCII string of up to MaxLen characters    *)
(* drawn from a few codes that exercise both ends of the alphabet            *)

\* NUL, ':', '>', '?', 'c', '~', DEL
Codes == {0, 58, 62, 63, 99, 126, 127}

RECURSIVE StringsUpTo(_)
StringsUpTo(n) ==
    IF n = 0 THEN { <<>> }
    ELSE LET shorter == StringsUpTo(n - 1)
         IN  shorter \cup { Append(s, c) : s \in shorter, c \in Codes }

Strings == StringsUpTo(MaxLen)

\* the value of a base64 character
B64Value(ch) == CHOOSE n \in 0..63 : B64Alphabet[n + 1] = ch

\* '=' appended up to a multiple of four characters
RECURSIVE Repad(_)
Repad(t) == IF Len(t) % 4 = 0 THEN t ELSE Repad(Append(t, Pad))

\* base64.urlsafe_b64decode of padded text; <<-1>> for text it rejects
RECURSIVE urlsafe_b64decode(_)
urlsafe_b64decode(t) ==
    IF t = <<>> THEN <<>>
    ELSE IF Len(t) < 4 \/ t[1] = Pad \/ t[2] = Pad THEN <<-1>>
    ELSE LET v1 == B64Value(t[1])
             v2 == B64Value(t[2])
         IN  IF t[3] = Pad
             THEN IF Len(t) = 4 /\ t[4] = Pad THEN << v1 * 4 + (v2 \div 16) >>
                  ELSE <<-1>>
             ELSE IF t[4] = Pad
             THEN IF Len(t) = 4
                  THEN << v1 * 4 + (v2 \div 16),
                          (v2 % 16) * 16 + (B64Value(t[3]) \div 4) >>
                  ELSE <<-1>>
             ELSE << v1 * 4 + (v2 \div 16),
                     (v2 % 16) * 16 + (B64Value(t[3]) \div 4),
                     (B64Value(t[3]) % 4) * 64 + B64Value(t[4]) >>
                  \o urlsafe_b64decode(SubSeq(t, 5, Len(t)))

\* base64 by its definition (RFC 4648): the bits of the bytes, most
\* significant first, filled with zero bits to whole groups of six
RECURSIVE Bits(_, _)
Bits(n, width) == IF width = 0 THEN <<>> ELSE Append(Bits(n \div 2, width - 1), n % 2)

RECURSIVE StringBits(_)
StringBits(s) == IF s = <<>> THEN <<>> ELSE Bits(Head(s), 8) \o StringBits(Tail(s))

RECURSIVE ZeroFill(_)
ZeroFill(b) == IF Len(b) % 6 = 0 THEN b ELSE ZeroFill(Append(b, 0))

RECURSIVE BitsValue(_)
BitsValue(b) == IF b = <<>> THEN 0 ELSE 2 * BitsValue(SubSeq(b, 1, Len(b) - 1)) + b[Len(b)]

RECURSIVE GroupChars(_)
GroupChars(b) ==
    IF b = <<>> THEN <<>>
    ELSE << B64Alphabet[BitsValue(SubSeq(b, 1, 6)) + 1] >> \o GroupChars(SubSeq(b, 7, Len(b)))

UnpaddedBase64(s) == GroupChars(ZeroFill(StringBits(s)))

EncodeString ==
    /\ ~ eout.done
    /\ eout' = LET enc == _make_url_safe_base64_encoded_string(ein)
               IN  [done |-> TRUE, enc |-> enc, dec |-> urlsafe_b64decode(Repad(enc))]
    /\ UNCHANGED <<results, disk, loc, pim, last, ein, lin, lout>>

InitEncode ==
    /\ HostIdle
    /\ pim = [f \in Files |-> BadPayload]
    /\ ein \in Strings
    /\ eout = [done |-> FALSE, enc |-> <<>>, dec |-> <<>>]
    /\ lin = [payload |-> BadPayload, design |-> "A"]
    /\ lout = [done |-> FALSE, raised |-> FALSE, res |-> NoResults]

NextEncode == EncodeString

SpecEncode == InitEncode /\ [][NextEncode]_vars

\* C3: the identifier of an ASCII string is its unpadded URL-safe base64
\* text: it holds no '=', re-padded to a multiple of four characters it
\* decodes to the string, and no other string has the same identifier.
C3_EncodingReversible ==
    eout.done =>
        /\ eout.enc = UnpaddedBase64(ein)
        /\ Pad \notin Range(eout.enc)
        /\ eout.dec = ein
        /\ \A s \in Strings \ {ein} :
               _make_url_safe_base64_encoded_string(s) # eout.enc

\* a two-character string, whose base64 text ends in one '=' that is stripped
C3_Witness ==
    /\ eout.done
    /\ Len(ein) = 2
    /\ Len(eout.enc) = 3
    /\ Len(urlsafe_b64encode(ein)) = 4

----------------------------------------------------------------------------
(* The lookup on its own: a payload made of any of the spaces below, in     *)
(* this order, and the component list of any design                          *)

LookupSpaces == <<spScalar, spNoAsset, spA1, spB1, spS1noId, spS1, spS2, spS1bis>>

\* the spaces of `all` at the positions `keep`, in order
RECURSIVE Pick(_, _, _)
Pick(all, keep, i) ==
    IF i > Len(all) THEN <<>>
    ELSE (IF i \in keep THEN <<all[i]>> ELSE <<>>) \o Pick(all, keep, i + 1)

LookupPayloads ==
    { Payload(Pick(LookupSpaces, keep, 1)) : keep \in SUBSET (1..Len(LookupSpaces)) }

\* lines 130-132 from an empty dict
LookupDesign ==
    /\ ~ lout.done
    /\ lout' = LET version_id == VersionId[lin.design]
                   g == _generate_component_info_for_design(
                            _ensure_file_version_in_results(NoResults, lin.design),
                            version_id, lin.design,
                            _make_structured_pim_data(lin.payload))
               IN  [done |-> TRUE, raised |-> g.raised, res |-> g.res]
    /\ UNCHANGED <<results, disk, loc, pim, last, ein, eout, lin>>

InitLookup ==
    /\ HostIdle
    /\ pim = [f \in Files |-> BadPayload]
    /\ ein = <<>>
    /\ eout = [done |-> FALSE, enc |-> <<>>, dec |-> <<>>]
    /\ lin \in [payload : LookupPayloads, design : Files]
    /\ lout = [done |-> FALSE, raised |-> FALSE, res |-> NoResults]

NextLookup == LookupDesign

SpecLookup == InitLookup /\ [][NextLookup]_vars

\* the positions of a payload that hold a model asset
ModelAssets(payload) ==
    { i \in 1..Len(payload.spaces) :
        payload.spaces[i].dict /\ payload.spaces[i].modelAsset }

\* the payload has a model asset of this lineage id
LineagePresent(payload, lineage) ==
    \E i \in ModelAssets(payload) : payload.spaces[i].lineage = lineage

\* the model assets of a component: its in-file id and its file's lineage id
SpacesOf(payload, component) ==
    { i \in ModelAssets(payload) :
        /\ payload.spaces[i].f3d = component.id
        /\ payload.spaces[i].lineage = FileId[component.file] }

\* the record is the component's, with the ids of this space
MapsTo(info, component, space) ==
    /\ info.Name = component.name
    /\ info.f3dComponentId = component.id
    /\ info.ComponentId =
           _make_url_safe_base64_encoded_string(ComponentIdString(space.id))
    /\ info.ComponentVersionId =
           _make_url_safe_base64_encoded_string(
               ComponentVersionIdString(space.id, space.snapshotId))

\* the records made for a component: those of its file's Components list
\* with its in-file id
RecordsOf(res, component) ==
    IF InResults(res, VersionId[component.file])
    THEN { info \in Range(res[VersionId[component.file]].Components) :
             info.f3dComponentId = component.id }
    ELSE {}

\* C2: each component is mapped to the asset id and snapshot id of a space
\* with its in-file id and its file's lineage id, never to a space of another
\* lineage id, and to the sentinel in both fields when its lineage id has
\* entries but none with its id; a component whose lineage id has no entry
\* gets no record.
C2_LookupByLineage ==
    lout.done =>
        \A c \in Range(allComponents[lin.design]) :
            LET recs == RecordsOf(lout.res, c)
                mine == SpacesOf(lin.payload, c)
            IN  /\ Cardinality(recs) <= 1
                /\ ~ lout.raised =>
                       (recs # {} <=> LineagePresent(lin.payload, FileId[c.file]))
                /\ \A info \in recs :
                       /\ mine # {} =>
                              \E i \in mine : MapsTo(info, c, lin.payload.spaces[i])
                       /\ mine = {} =>
                              /\ info.ComponentId = Sentinel
                              /\ info.ComponentVersionId = Sentinel
                       /\ \A j \in ModelAssets(lin.payload) \ mine :
                              lin.payload.spaces[j].hasId =>
                                  ~ MapsTo(info, c, lin.payload.spaces[j])

\* design A with the spaces of a1 and of s1, two components with the same
\* in-file id: each is resolved, to different ids
C2_Witness ==
    /\ lout.done
    /\ ~ lout.raised
    /\ lin.design = "A"
    /\ RecordsOf(lout.res, compA1) # {}
    /\ RecordsOf(lout.res, compS1) # {}
    /\ \A x \in RecordsOf(lout.res, compA1), y \in RecordsOf(lout.res, compS1) :
           /\ x.ComponentId # y.ComponentId
           /\ x.ComponentId # Sentinel
           /\ y.ComponentId # Sentinel

----------------------------------------------------------------------------
(* Properties of the public operations *)

ComponentNamed(name) == CHOOSE c \in AllComps : c.name = name

\* the first record with the component's id in the file's Components list of
\* a dict, as a list of at most one element
FirstRecord(res, component) ==
    IF VersionId[component.file] \in DOMAIN res
    THEN LET l == res[VersionId[component.file]].Components
             at == { i \in 1..Len(l) : l[i].f3dComponentId = component.id }
         IN  IF at = {} THEN <<>>
             ELSE << l[CHOOSE i \in at : \A j \in at : i <= j] >>
    ELSE <<>>

Raised == {"RuntimeError", "KeyError", "JSONDecodeError"}

\* C1 as stated: with no model asset of the component's lineage id in the
\* payload that was structured, the component is returned with the sentinel
\* in both id fields and nothing is raised.
C1_SentinelWithoutLineage ==
    (last.op = "component" /\ last.pimQueried) =>
        LET c == ComponentNamed(last.target)
        IN  (pim[c.file].valid /\ ~ LineagePresent(pim[c.file], FileId[c.file])) =>
                /\ last.outcome = "ok"
                /\ last.ret[1].ComponentId = Sentinel
                /\ last.ret[1].ComponentVersionId = Sentinel

\* C1 amended: resolving a component from a payload with no model asset of
\* its lineage id returns nothing: no record is made and the call raises
\* (RuntimeError, unless another record's KeyError came first).  The sentinel
\* is what a payload gives that has model assets of the lineage id but none
\* with the component's id: then the call does not raise RuntimeError, and
\* what it returns has the sentinel in both id fields.
C1_SentinelOnlyWithinLineage ==
    (last.op = "component" /\ last.pimQueried) =>
        LET c == ComponentNamed(last.target)
            present == LineagePresent(pim[c.file], FileId[c.file])
        IN  pim[c.file].valid =>
                /\ ~ present =>
                       /\ last.outcome \in {"RuntimeError", "KeyError"}
                       /\ FirstRecord(results, c) = <<>>
                /\ (present /\ SpacesOf(pim[c.file], c) = {}) =>
                       /\ last.outcome \in {"ok", "KeyError"}
                       /\ last.outcome = "ok" =>
                              /\ last.ret[1].ComponentId = Sentinel
                              /\ last.ret[1].ComponentVersionId = Sentinel

\* a component resolved from a payload without its lineage id: RuntimeError
C1_Witness ==
    /\ last.op = "component"
    /\ last.pimQueried
    /\ pim[ComponentNamed(last.target).file].valid
    /\ ~ LineagePresent(pim[ComponentNamed(last.target).file],
                        FileId[ComponentNamed(last.target).file])
    /\ last.outcome = "RuntimeError"

\* the fields a refresh leaves alone
Cached(info) ==
    <<info.Name, info.DesignFileId, info.DesignFileVersionId,
      info.Components, info.AllComponents>>

\* the names of the records of a list
Names(l) == { l[i].Name : i \in 1..Len(l) }

\* the host's payloads make no computation raise: each is valid JSON and
\* each model asset has its id
NoPayloadRaises ==
    \A f \in Files :
        /\ pim[f].valid
        /\ \A i \in ModelAssets(pim[f]) : pim[f].spaces[i].hasId

\* C4 as stated, already where no operation can have raised: a returned
\* DesignInfo lists in Components exactly the resolvable components of the
\* design's own file, in AllComponents exactly the resolvable components of
\* design.allComponents, and Components is a subset of AllComponents.
C4_ComponentsWithinAllComponents ==
    (NoPayloadRaises /\ last.op = "design" /\ last.outcome = "ok") =>
        LET d == last.target
            r == last.ret[1]
            resolvable == { c \in Range(allComponents[d]) :
                              LineagePresent(pim[d], FileId[c.file]) }
        IN  /\ Names(r.Components) = { c.name : c \in { x \in resolvable : x.file = d } }
            /\ Names(r.AllComponents) = { c.name : c \in resolvable }
            /\ Range(r.Components) \subseteq Range(r.AllComponents)

\* C5: a DesignInfo returned by get_fusion_data_ids_for_design has the data
\* file's current folder, project and hub ids, whether it came from memory,
\* from the disk cache or from the host; on a cache hit its other fields are
\* those of the cached record; and it is the record now in memory and in the
\* version id's cache file.
C5_RefreshOnRead ==
    [][ (last'.op = "design" /\ last'.outcome = "ok") =>
            LET d == last'.target
                v == VersionId[d]
                r == last'.ret[1]
            IN  /\ r.FolderId = loc'[d].folder
                /\ r.ProjectId = loc'[d].project
                /\ r.HubId = loc'[d].hub
                /\ last'.memHit => Cached(r) = Cached(results[v])
                /\ last'.diskHit => Cached(r) = Cached(_read_versions_file(disk, v))
                /\ InResults(results', v) /\ results'[v] = r
                /\ FileExists(disk', v) /\ _read_versions_file(disk', v) = r
      ]_vars

\* a record served from the disk cache for a file that is no longer where
\* the cached record says
C5_Witness ==
    /\ last.op = "design"
    /\ last.outcome = "ok"
    /\ last.diskHit
    /\ loc[last.target] # HomeLocation
    /\ last.ret[1].HubId = loc[last.target].hub

\* C6: get_fusion_data_ids_for_design serves a version id that is in the
\* in-memory dict from memory, reading no cache file and not querying the
\* PIM payload; otherwise a version id with a cache file from that file,
\* not querying the PIM payload; it queries the PIM payload only when both
\* miss.
C6_LookupOrder ==
    [][ last'.op = "design" =>
            LET v == VersionId[last'.target]
            IN  /\ InResults(results, v) =>
                       /\ last'.memHit
                       /\ ~ last'.diskRead
                       /\ ~ last'.pimQueried
                /\ (~ InResults(results, v) /\ FileExists(disk, v)) =>
                       /\ ~ last'.memHit
                       /\ last'.diskRead /\ last'.diskHit
                       /\ ~ last'.pimQueried
                /\ last'.pimQueried =>
                       ~ InResults(results, v) /\ ~ FileExists(disk, v)
                /\ (~ InResults(results, v) /\ ~ FileExists(disk, v)) =>
                       last'.pimQueried
      ]_vars

\* a design served from its cache file while the dict does not hold it
C6_Witness ==
    /\ last.op = "design"
    /\ ~ last.memHit
    /\ last.diskRead
    /\ last.diskHit
    /\ ~ last.pimQueried
    /\ last.outcome = "ok"

\* C7 as stated: a RuntimeError of get_fusion_data_ids_for_component comes
\* only after the design's identifiers were recomputed from the host, the
\* PIM payload queried.
C7_ErrorOnlyAfterHostQuery ==
    (last.op = "component" /\ last.outcome = "RuntimeError") => last.pimQueried

\* C7 amended: a component found in the in-memory record of its file version
\* is returned at once: no error, nothing read, memory and disk unchanged.
\* One not found there makes _generate_design_info run, which reloads the
\* record from the version's cache file when there is one (no PIM query) and
\* recomputes from the host only when there is none; RuntimeError is raised
\* only after that, and only if the record then in memory still lacks the
\* component.
C7_ErrorOnlyAfterRegeneration ==
    [][ last'.op = "component" =>
            LET c == ComponentNamed(last'.target)
                v == VersionId[c.file]
                first == FirstRecord(results, c)
            IN  /\ first # <<>> =>
                       /\ last'.outcome = "ok"
                       /\ last'.ret = first
                       /\ ~ last'.diskRead /\ ~ last'.pimQueried
                       /\ results' = results /\ disk' = disk
                /\ first = <<>> =>
                       /\ last'.diskRead
                       /\ last'.diskHit <=> FileExists(disk, v)
                       /\ last'.pimQueried <=> ~ FileExists(disk, v)
                /\ last'.outcome = "RuntimeError" =>
                       /\ first = <<>>
                       /\ FirstRecord(results', c) = <<>>
                /\ (first = <<>> /\ last'.outcome = "ok") =>
                       last'.ret = FirstRecord(results', c) /\ last'.ret # <<>>
      ]_vars

\* a RuntimeError after the record was only reloaded from its cache file
C7_Witness ==
    /\ last.op = "component"
    /\ last.outcome = "RuntimeError"
    /\ last.diskHit
    /\ ~ last.pimQueried

\* C8 as stated: an operation that raises leaves the in-memory dict and the
\* cache files as they were before it.
C8_AllOrNothing ==
    [][ last'.outcome \in Raised => (results' = results /\ disk' = disk) ]_vars

NoDuplicates(l) ==
    \A i, j \in 1..Len(l) : l[i].f3dComponentId = l[j].f3dComponentId => i = j

\* C9 as stated: no record, in memory or in a cache file, has two Components
\* entries with the same f3dComponentId.
C9_NoDuplicateComponents ==
    /\ \A v \in DOMAIN results : NoDuplicates(results[v].Components)
    /\ \A n \in DOMAIN disk : NoDuplicates(disk[n].Components)

\* C10 as stated: when an operation returns, every version id of the
\* in-memory dict has a cache file holding the in-memory record.
C10_MemoryEqualsDisk ==
    (last.op \in {"design", "component"} /\ last.outcome = "ok") =>
        \A v \in DOMAIN results :
            FileExists(disk, v) /\ _read_versions_file(disk, v) = results[v]

====
